---------------------------- MODULE Spec2Model ----------------------------
(***************************************************************************)
(* A model of the recursive sphere ray tracer of ray.cpp: Sphere::intersect *)
(* and trace, with trace's recursion unfolded into an explicit call stack.  *)
(*                                                                         *)
(* float is modelled as fixed point: the integer v stands for v / SCALE.    *)
(* SCALE is 10^6, about the resolution of a float near the coordinates of   *)
(* the scenes, and the bias 1e-4 of trace is the integer 100.  Every        *)
(* operation rounds toward zero and is symmetric in the sign, as float's    *)
(* are.  Two values of float that decide control flow are kept apart from   *)
(* the numbers: NaN (the sqrt of a negative number and everything computed  *)
(* from it; every comparison with it is false) and INFINITY.                *)
(***************************************************************************)
EXTENDS Integers, Sequences, FiniteSets

SCALE == 1000000

NaN == -2147483647

INFINITY == 2147483647

MAX_RAY_DEPTH == 5

\* The bound of the model: the longest scene.
MaxSpheres == 3

-----------------------------------------------------------------------------
(* float arithmetic *)

Abs(a) == IF a < 0 THEN -a ELSE a

IsNaN(a) == a = NaN

\* n / 10 as a float
Tenths(n) == n * (SCALE \div 10)

\* a * b for a, b >= 0, rounded toward zero; the product is taken in halves
\* of three digits so that no intermediate value leaves 32 bits.
MulAbs(a, b) ==
    LET ah == a \div 1000
        al == a % 1000
        bh == b \div 1000
        bl == b % 1000
    IN  ah * bh + ((ah * bl + al * bh + ((al * bl) \div 1000)) \div 1000)

RECURSIVE DivDigits(_, _, _, _)
\* Long division: n more decimal digits of r / b appended to q.
DivDigits(q, r, b, n) ==
    IF n = 0 THEN q
    ELSE DivDigits(q * 10 + ((r * 10) \div b), (r * 10) % b, b, n - 1)

\* a / b for a >= 0, b > 0, rounded toward zero.
DivAbs(a, b) == DivDigits(a \div b, a % b, b, 6)

FAdd(a, b) == IF IsNaN(a) \/ IsNaN(b) THEN NaN ELSE a + b

FSub(a, b) == IF IsNaN(a) \/ IsNaN(b) THEN NaN ELSE a - b

FNeg(a) == IF IsNaN(a) THEN NaN ELSE -a

FMul(a, b) ==
    IF IsNaN(a) \/ IsNaN(b) THEN NaN
    ELSE IF (a < 0) = (b < 0) THEN MulAbs(Abs(a), Abs(b))
    ELSE -MulAbs(Abs(a), Abs(b))

\* a / b; x / 0 is infinite for x # 0 and NaN for x = 0.
FDiv(a, b) ==
    IF IsNaN(a) \/ IsNaN(b) THEN NaN
    ELSE IF b = 0 THEN (IF a = 0 THEN NaN ELSE IF a > 0 THEN INFINITY ELSE -INFINITY)
    ELSE IF (a < 0) = (b < 0) THEN DivAbs(Abs(a), Abs(b))
    ELSE -DivAbs(Abs(a), Abs(b))

\* The comparisons of float: false as soon as one side is NaN.
FLt(a, b) == ~IsNaN(a) /\ ~IsNaN(b) /\ a < b

FGt(a, b) == ~IsNaN(a) /\ ~IsNaN(b) /\ a > b

FLe(a, b) == ~IsNaN(a) /\ ~IsNaN(b) /\ a <= b

FGe(a, b) == ~IsNaN(a) /\ ~IsNaN(b) /\ a >= b

\* std::max(a, b)
FMax(a, b) == IF FLt(a, b) THEN b ELSE a

\* Whether r * r <= x * SCALE, compared in two halves.
SqLe(r, x) ==
    LET rh == r \div 1000
        rl == r % 1000
        w  == 2 * rh * rl + ((rl * rl) \div 1000)
        q  == rh * rh + (w \div 1000)
    IN  q < x \/ (q = x /\ w % 1000 = 0 /\ (rl * rl) % 1000 = 0)

RECURSIVE SqrtSearch(_, _, _)
\* The largest r in lo..hi with r * r <= x * SCALE (lo is known to be one).
SqrtSearch(x, lo, hi) ==
    IF lo >= hi THEN lo
    ELSE LET mid == (lo + hi + 1) \div 2
         IN  IF SqLe(mid, x) THEN SqrtSearch(x, mid, hi)
             ELSE SqrtSearch(x, lo, mid - 1)

\* sqrt: NaN below zero, exact on squares, rounded toward zero otherwise.
FSqrt(x) ==
    IF IsNaN(x) \/ x < 0 THEN NaN
    ELSE SqrtSearch(x, 0, IF x < SCALE THEN SCALE
                          ELSE IF x < 40 * SCALE THEN x ELSE 40 * SCALE)

\* pow(x, 3)
FPow3(x) == FMul(FMul(x, x), x)

-----------------------------------------------------------------------------
(* Vec3<float> *)

Vec(x, y, z) == <<x, y, z>>

\* Vec3f(v): the three components equal
Vec1(v) == <<v, v, v>>

VAdd(a, b) == <<FAdd(a[1], b[1]), FAdd(a[2], b[2]), FAdd(a[3], b[3])>>

VSub(a, b) == <<FSub(a[1], b[1]), FSub(a[2], b[2]), FSub(a[3], b[3])>>

VNeg(a) == <<FNeg(a[1]), FNeg(a[2]), FNeg(a[3])>>

\* vector * scalar
VScale(a, f) == <<FMul(a[1], f), FMul(a[2], f), FMul(a[3], f)>>

\* vector * vector, by component
VMul(a, b) == <<FMul(a[1], b[1]), FMul(a[2], b[2]), FMul(a[3], b[3])>>

Dot(a, b) == FAdd(FAdd(FMul(a[1], b[1]), FMul(a[2], b[2])), FMul(a[3], b[3]))

Length2(a) == Dot(a, a)

\* normalize(): scales to unit length; a vector of length 0 or NaN is left
\* without a direction.
Normalize(a) ==
    LET len == FSqrt(Length2(a))
    IN  <<FDiv(a[1], len), FDiv(a[2], len), FDiv(a[3], len)>>

VIsNaN(a) == IsNaN(a[1]) \/ IsNaN(a[2]) \/ IsNaN(a[3])

-----------------------------------------------------------------------------
(* class Sphere *)

\* The constructor: radius2 is computed from radius.
Sphere(c, r, sc, refl, transp, ec) ==
    [center |-> c, radius |-> r, radius2 |-> FMul(r, r),
     surfaceColor |-> sc, emissionColor |-> ec,
     transparency |-> transp, reflection |-> refl]

\* Mutant: d2 >= radius2 for d2 > radius2, so that a tangent ray misses.
intersect_TangentMiss(s, rayorig, raydir, t0, t1) ==
    LET l   == VSub(s.center, rayorig)
        tca == Dot(l, raydir)
        d2  == FSub(Dot(l, l), FMul(tca, tca))
        thc == FSqrt(FSub(s.radius2, d2))
    IN  IF FLt(tca, 0) THEN [hit |-> FALSE, t0 |-> t0, t1 |-> t1]
        ELSE IF FGe(d2, s.radius2) THEN [hit |-> FALSE, t0 |-> t0, t1 |-> t1]
        ELSE [hit |-> TRUE, t0 |-> FSub(tca, thc), t1 |-> FAdd(tca, thc)]

\* Sphere::intersect.  t0 and t1 are the caller's variables, which a miss
\* leaves as they are.
intersect(s, rayorig, raydir, t0, t1) ==
    LET l   == VSub(s.center, rayorig)
        tca == Dot(l, raydir)
        d2  == FSub(Dot(l, l), FMul(tca, tca))
        thc == FSqrt(FSub(s.radius2, d2))
    IN  IF FLt(tca, 0) THEN [hit |-> FALSE, t0 |-> t0, t1 |-> t1]
        ELSE IF FGt(d2, s.radius2) THEN [hit |-> FALSE, t0 |-> t0, t1 |-> t1]
        ELSE [hit |-> TRUE, t0 |-> FSub(tca, thc), t1 |-> FAdd(tca, thc)]

\* mix()
mix(a, b, m) == FAdd(FMul(b, m), FMul(a, FSub(SCALE, m)))

-----------------------------------------------------------------------------
(* The scenes and the primary rays that are traced *)

Zero == Vec1(0)

White == Vec1(SCALE)

\* The spheres the scenes are built from.
\*  1 a mirror in front of the camera        2 a mirror behind the camera
\*  3 a glowing glass sphere, where 1 is      4 a glass sphere around the camera
\*  5 a diffuse sphere in the place of 1     6 a light without surface colour
\*  7 a second light, on the second primary ray
\*  8 a small diffuse sphere between 5 and 6 9 a glowing shell around the camera
Palette ==
    << Sphere(Vec(0, 0, -3 * SCALE), SCALE, White, SCALE, 0, Zero),
       Sphere(Vec(0, 0, 3 * SCALE), SCALE, Vec1(Tenths(9)), SCALE, 0, Zero),
       Sphere(Vec(0, 0, -3 * SCALE), SCALE, Vec(SCALE, Tenths(3), Tenths(4)),
              SCALE, Tenths(5), Vec1(Tenths(1))),
       Sphere(Vec(0, Tenths(19), 0), 2 * SCALE, White, SCALE, Tenths(5), Zero),
       Sphere(Vec(0, 0, -3 * SCALE), SCALE, Vec1(Tenths(2)), 0, 0, Zero),
       Sphere(Vec(Tenths(12), 0, -Tenths(16)), Tenths(5), Zero, 0, 0,
              Vec1(5 * SCALE)),
       Sphere(Vec(3 * SCALE, 0, -4 * SCALE), SCALE, Zero, 0, 0, Vec1(3 * SCALE)),
       Sphere(Vec(Tenths(6), 0, -Tenths(18)), Tenths(2), Vec(0, SCALE, 0), 0, 0,
              Zero),
       Sphere(Vec(0, 0, -Tenths(5)), Tenths(15), Vec1(Tenths(5)), 0, 0, White) >>

Injective(f) == \A a, b \in DOMAIN f : f[a] = f[b] => a = b

\* std::vector<Sphere>: every list of at most MaxSpheres different spheres.
Scenes ==
    { [k \in DOMAIN f |-> Palette[f[k]]] :
        f \in { g \in UNION { [1..n -> 1..Len(Palette)] : n \in 0..MaxSpheres } :
                  Injective(g) } }

\* Directions of camera rays, of unit length.
PrimaryRays ==
    << Vec(0, 0, -SCALE), Vec(Tenths(6), 0, -Tenths(8)) >>

-----------------------------------------------------------------------------
(* The state *)

VARIABLES
    spheres,  \* the scene: the std::vector<Sphere> every call of trace reads
    stack,    \* the invocations of trace in progress, the innermost one last
    ret,      \* <<v>>: the value a finished trace hands its caller; else <<>>
    calls,    \* how often trace has been entered since the primary ray
    pixel     \* <<v>>: the colour render stored for the primary ray; else <<>>

vars == <<spheres, stack, ret, calls, pixel>>

\* The locals of an invocation of trace that has just been entered.  hits
\* keeps what intersect answered for each sphere in the first loop, lights
\* what the second loop did for each light, ncalls how often this
\* invocation has called trace.
NewFrame(rayorig, raydir, depth) ==
    [rayorig |-> rayorig, raydir |-> raydir, depth |-> depth, pc |-> "scan",
     hits |-> <<>>, tnear |-> INFINITY, sphere |-> 0,
     phit |-> Zero, nhit |-> Zero, inside |-> FALSE, branch |-> "none",
     fresneleffect |-> 0, reflection |-> Zero, refraction |-> Zero,
     surfaceColor |-> Zero, i |-> 0, lights |-> <<>>, ncalls |-> 0]

Top == stack[Len(stack)]

Pop == SubSeq(stack, 1, Len(stack) - 1)

SetTop(f) == [stack EXCEPT ![Len(stack)] = f]

-----------------------------------------------------------------------------
(* trace, the pieces *)

bias == 100

ior == 1100000

\* if (t0 < 0) t0 = t1;
NearDistance(h) == IF FLt(h.t0, 0) THEN h.t1 ELSE h.t0

\* Mutant: <= for <, so that the later of two equally near spheres wins.
Nearer_OrEqual(t0, tnear) == FLe(t0, tnear)

\* if (t0 < tnear)
Nearer(t0, tnear) == FLt(t0, tnear)

RECURSIVE FindNearestFrom(_, _, _, _)
\* The first loop of trace from sphere i on; r is tnear, sphere and the
\* answers of intersect so far.
FindNearestFrom(i, r, rayorig, raydir) ==
    IF i > Len(spheres) THEN r
    ELSE LET h    == intersect(spheres[i], rayorig, raydir, INFINITY, INFINITY)
             t0   == NearDistance(h)
             take == h.hit /\ Nearer(t0, r.tnear)
         IN  FindNearestFrom(i + 1,
                 [tnear  |-> IF take THEN t0 ELSE r.tnear,
                  sphere |-> IF take THEN i ELSE r.sphere,
                  hits   |-> Append(r.hits, h)],
                 rayorig, raydir)

\* Mutant: black for the background.
Background_Black == Vec1(0)

\* return Vec3f(2);
Background == Vec1(2 * SCALE)

\* phit, nhit and inside
HitGeometry(f) ==
    LET phit   == VAdd(f.rayorig, VScale(f.raydir, f.tnear))
        n      == Normalize(VSub(phit, spheres[f.sphere].center))
        inside == FGt(Dot(f.raydir, n), 0)
    IN  [phit |-> phit, nhit |-> IF inside THEN VNeg(n) ELSE n, inside |-> inside]

\* Mutant: depth <= MAX_RAY_DEPTH for depth < MAX_RAY_DEPTH.
SpecularCond_DepthInclusive(s, depth) ==
    (FGt(s.transparency, 0) \/ FGt(s.reflection, 0)) /\ depth <= MAX_RAY_DEPTH

\* Mutant: || for &&.
SpecularCond_Or(s, depth) ==
    (FGt(s.transparency, 0) \/ FGt(s.reflection, 0)) \/ depth < MAX_RAY_DEPTH

\* The condition of the specular / transmissive branch.
SpecularCond(s, depth) ==
    (FGt(s.transparency, 0) \/ FGt(s.reflection, 0)) /\ depth < MAX_RAY_DEPTH

\* Mutant: the depth is passed on as it is.
NextDepth_Unchanged(depth) == depth

\* The depth a recursive call is made with.
NextDepth(depth) == depth + 1

Fresnel(raydir, nhit) ==
    LET facingratio == FNeg(Dot(raydir, nhit))
    IN  mix(FPow3(FSub(SCALE, facingratio)), SCALE, Tenths(1))

ReflectionDir(raydir, nhit) ==
    Normalize(VSub(raydir, VScale(VScale(nhit, 2 * SCALE), Dot(raydir, nhit))))

ReflectionOrigin(phit, nhit) == VAdd(phit, VScale(nhit, bias))

\* Mutant: the reflection is tested for the transparency.
RefractCond_Reflection(s) == s.reflection # 0

\* if (sphere->transparency)
RefractCond(s) == s.transparency # 0

RefractionDir(raydir, nhit, inside) ==
    LET eta  == IF inside THEN ior ELSE FDiv(SCALE, ior)
        cosi == FNeg(Dot(nhit, raydir))
        k    == FSub(SCALE, FMul(FMul(eta, eta), FSub(SCALE, FMul(cosi, cosi))))
    IN  Normalize(VAdd(VScale(raydir, eta),
                       VScale(nhit, FSub(FMul(eta, cosi), FSqrt(k)))))

RefractionOrigin(phit, nhit) == VSub(phit, VScale(nhit, bias))

\* The mix of reflection and refraction.
SpecularColor(f, reflection, refraction) ==
    LET s == spheres[f.sphere]
    IN  VMul(VAdd(VScale(reflection, f.fresneleffect),
                  VScale(VScale(refraction, FSub(SCALE, f.fresneleffect)),
                         s.transparency)),
             s.surfaceColor)

\* Mutant: the surface colour is tested for the emission.
IsLight_SurfaceColor(s) == FGt(s.surfaceColor[1], 0)

\* if (spheres[i].emissionColor.x > 0)
IsLight(s) == FGt(s.emissionColor[1], 0)

\* Mutant: the light is not left out of its own shadow test.
MayOcclude_Any(i, j) == TRUE

\* if (i != j)
MayOcclude(i, j) == i # j

RECURSIVE Transmission(_, _, _, _)
\* The loop over j for light i, from sphere j on: 0 at the first sphere that
\* the shadow ray meets, else 1.
Transmission(j, i, orig, lightDirection) ==
    IF j > Len(spheres) THEN Vec1(SCALE)
    ELSE IF MayOcclude(i, j) /\ intersect(spheres[j], orig, lightDirection, 0, 0).hit
         THEN Zero
         ELSE Transmission(j + 1, i, orig, lightDirection)

\* What light i adds to surfaceColor.
LightTerm(f, i, transmission, lightDirection) ==
    VMul(VScale(VMul(spheres[f.sphere].surfaceColor, transmission),
                FMax(0, Dot(f.nhit, lightDirection))),
         spheres[i].emissionColor)

\* Mutant: the emission is not added.
ReturnValue_NoEmission(f) == f.surfaceColor

\* return surfaceColor + sphere->emissionColor;
ReturnValue(f) == VAdd(f.surfaceColor, spheres[f.sphere].emissionColor)

-----------------------------------------------------------------------------
(* render and trace, step by step *)

Init ==
    /\ spheres \in Scenes
    /\ stack = <<>>
    /\ ret = <<>>
    /\ calls = 0
    /\ pixel = <<>>

\* render: *pixel = trace(Vec3f(0), raydir, spheres, 0), the call.
PrimaryRay ==
    /\ stack = <<>> /\ ret = <<>> /\ pixel = <<>>
    /\ \E r \in DOMAIN PrimaryRays :
          stack' = <<NewFrame(Zero, PrimaryRays[r], 0)>>
    /\ calls' = 1
    /\ UNCHANGED <<spheres, ret, pixel>>

\* render: the colour trace returned is stored.
StorePixel ==
    /\ stack = <<>> /\ ret # <<>>
    /\ pixel' = ret
    /\ ret' = <<>>
    /\ UNCHANGED <<spheres, stack, calls>>

\* The first loop: the nearest sphere the ray meets.
FindNearest ==
    /\ stack # <<>> /\ Top.pc = "scan"
    /\ LET r == FindNearestFrom(1, [tnear |-> INFINITY, sphere |-> 0, hits |-> <<>>],
                                Top.rayorig, Top.raydir)
       IN  stack' = SetTop([Top EXCEPT !.pc = "found", !.tnear = r.tnear,
                                       !.sphere = r.sphere, !.hits = r.hits])
    /\ UNCHANGED <<spheres, ret, calls, pixel>>

\* if (!sphere) return Vec3f(2);
ReturnBackground ==
    /\ stack # <<>> /\ Top.pc = "found" /\ Top.sphere = 0
    /\ stack' = Pop
    /\ ret' = <<Background>>
    /\ UNCHANGED <<spheres, calls, pixel>>

\* A reflective or transparent sphere, depth left: the point and normal of
\* the hit, and the call reflection = trace(phit + nhit * bias, refldir, ..).
Reflect ==
    /\ stack # <<>> /\ Top.pc = "found" /\ Top.sphere # 0
    /\ SpecularCond(spheres[Top.sphere], Top.depth)
    /\ LET g == HitGeometry(Top)
           f == [Top EXCEPT !.pc = "reflect", !.branch = "specular",
                            !.phit = g.phit, !.nhit = g.nhit, !.inside = g.inside,
                            !.fresneleffect = Fresnel(Top.raydir, g.nhit),
                            !.ncalls = @ + 1]
       IN  stack' = Append(SetTop(f),
                           NewFrame(ReflectionOrigin(g.phit, g.nhit),
                                    ReflectionDir(Top.raydir, g.nhit),
                                    NextDepth(Top.depth)))
    /\ calls' = calls + 1
    /\ UNCHANGED <<spheres, ret, pixel>>

\* The reflection has returned and the sphere is transparent: the call
\* refraction = trace(phit - nhit * bias, refrdir, ..).
Refract ==
    /\ stack # <<>> /\ Top.pc = "reflect" /\ ret # <<>>
    /\ RefractCond(spheres[Top.sphere])
    /\ LET f == [Top EXCEPT !.pc = "refract", !.reflection = ret[1],
                            !.ncalls = @ + 1]
       IN  stack' = Append(SetTop(f),
                           NewFrame(RefractionOrigin(Top.phit, Top.nhit),
                                    RefractionDir(Top.raydir, Top.nhit, Top.inside),
                                    NextDepth(Top.depth)))
    /\ ret' = <<>>
    /\ calls' = calls + 1
    /\ UNCHANGED <<spheres, pixel>>

\* The reflection has returned and the sphere is opaque: refraction stays 0.
SkipRefraction ==
    /\ stack # <<>> /\ Top.pc = "reflect" /\ ret # <<>>
    /\ ~RefractCond(spheres[Top.sphere])
    /\ stack' = SetTop([Top EXCEPT !.pc = "return", !.reflection = ret[1],
                                   !.surfaceColor = SpecularColor(Top, ret[1], Zero)])
    /\ ret' = <<>>
    /\ UNCHANGED <<spheres, calls, pixel>>

\* The refraction has returned.
Refracted ==
    /\ stack # <<>> /\ Top.pc = "refract" /\ ret # <<>>
    /\ stack' = SetTop([Top EXCEPT !.pc = "return", !.refraction = ret[1],
                                   !.surfaceColor =
                                       SpecularColor(Top, Top.reflection, ret[1])])
    /\ ret' = <<>>
    /\ UNCHANGED <<spheres, calls, pixel>>

\* Else: a diffuse object; the point and normal of the hit, and the loop
\* over the lights is entered.
Diffuse ==
    /\ stack # <<>> /\ Top.pc = "found" /\ Top.sphere # 0
    /\ ~SpecularCond(spheres[Top.sphere], Top.depth)
    /\ LET g == HitGeometry(Top)
       IN  stack' = SetTop([Top EXCEPT !.pc = "lights", !.branch = "diffuse",
                                       !.phit = g.phit, !.nhit = g.nhit,
                                       !.inside = g.inside, !.i = 1])
    /\ UNCHANGED <<spheres, ret, calls, pixel>>

\* One round of the loop over i: sphere i, when it is a light, is tested for
\* shadow and added to surfaceColor.
LightStep ==
    /\ stack # <<>> /\ Top.pc = "lights"
    /\ LET i    == Top.i
           dir  == Normalize(VSub(spheres[i].center, Top.phit))
           tr   == Transmission(1, i, VAdd(Top.phit, VScale(Top.nhit, bias)), dir)
           term == LightTerm(Top, i, tr, dir)
           f    == IF IsLight(spheres[i])
                   THEN [Top EXCEPT !.surfaceColor = VAdd(@, term),
                                    !.lights = Append(@, [i |-> i, transmission |-> tr,
                                                          lightDirection |-> dir,
                                                          term |-> term])]
                   ELSE Top
       IN  stack' = SetTop([f EXCEPT !.i = i + 1,
                                     !.pc = IF i = Len(spheres) THEN "return"
                                            ELSE "lights"])
    /\ UNCHANGED <<spheres, ret, calls, pixel>>

\* return surfaceColor + sphere->emissionColor;
ReturnColor ==
    /\ stack # <<>> /\ Top.pc = "return"
    /\ stack' = Pop
    /\ ret' = <<ReturnValue(Top)>>
    /\ UNCHANGED <<spheres, calls, pixel>>

Next ==
    \/ PrimaryRay
    \/ StorePixel
    \/ FindNearest
    \/ ReturnBackground
    \/ Reflect
    \/ Refract
    \/ SkipRefraction
    \/ Refracted
    \/ Diffuse
    \/ LightStep
    \/ ReturnColor

Spec == Init /\ [][Next]_vars

-----------------------------------------------------------------------------
(* Sphere::intersect on its own: one ray against the spheres of a scene *)

\* The bound of the ray origins tried: coordinates -MaxCoord..MaxCoord.
MaxCoord == 1

\* A direction without a value, as RefractionDir yields when k < 0.
NaNDir == Vec1(NaN)

RayOrigins ==
    { Vec(x * SCALE, y * SCALE, z * SCALE) : x, y, z \in -MaxCoord..MaxCoord }

RayDirs ==
    { Vec(0, 0, -SCALE), Vec(0, 0, SCALE), Vec(SCALE, 0, 0), Vec(0, -SCALE, 0),
      Vec(Tenths(6), 0, -Tenths(8)), Vec(0, Tenths(8), Tenths(6)), NaNDir }

InitIntersect ==
    /\ spheres \in { sc \in Scenes : Len(sc) = 1 }
    /\ \E o \in RayOrigins, d \in RayDirs : stack = <<NewFrame(o, d, 0)>>
    /\ ret = <<>>
    /\ calls = 1
    /\ pixel = <<>>

SpecIntersect == InitIntersect /\ [][FindNearest]_vars

-----------------------------------------------------------------------------
(* The properties *)

Frames == { stack[k] : k \in DOMAIN stack }

\* The invocations that have found the sphere their ray meets.
HitFrames == { f \in Frames : f.pc # "scan" /\ f.sphere # 0 }

HitSphere(f) == spheres[f.sphere]

\* Every sphere is a mirror: reflective and opaque.
MirrorScene ==
    \A i \in DOMAIN spheres :
        spheres[i].reflection > 0 /\ spheres[i].transparency = 0

Finished == pixel # <<>>

RECURSIVE Work(_)
\* A bound on the steps an invocation of depth d takes from its entry to
\* its return, its calls included: the longer of the diffuse branch (the
\* scan, the entry, a round for each sphere, the return) and of the specular
\* branch with both calls.
Work(d) ==
    IF d >= MAX_RAY_DEPTH THEN Len(spheres) + 3
    ELSE 5 + 2 * Work(d + 1)

\* The steps the invocation f can still take itself or in calls still to be
\* made.
Left(f) ==
    CASE f.pc = "scan"    -> Work(f.depth)
      [] f.pc = "found"   -> Work(f.depth) - 1
      [] f.pc = "reflect" -> 3 + Work(f.depth + 1)
      [] f.pc = "refract" -> 2
      [] f.pc = "lights"  -> Len(spheres) - f.i + 2
      [] f.pc = "return"  -> 1

RECURSIVE SumLeft(_)
SumLeft(k) == IF k = 0 THEN 0 ELSE SumLeft(k - 1) + Left(stack[k])

\* The steps left to render and trace together.
Rank ==
    IF Finished THEN 0
    ELSE IF stack = <<>> /\ ret = <<>> THEN Work(0) + 2
    ELSE SumLeft(Len(stack)) + 1

\* C1: in a scene of mirror spheres the primary ray's trace enters trace at
\* most MAX_RAY_DEPTH + 1 = 6 times, the first call included, and never
\* has more than 6 invocations in progress; and trace comes to its end,
\* since every step lowers the non-negative count of steps left.
C1_MirrorDepthBound ==
    /\ [](MirrorScene => calls <= 6 /\ Len(stack) <= 6)
    /\ [](Rank >= 0)
    /\ [][Rank' < Rank]_vars

\* Two mirrors facing each other: the ray went back and forth until the
\* sixth invocation, and trace has returned.
C1_Witness ==
    /\ MirrorScene /\ Len(spheres) = 2
    /\ calls = 6
    /\ Finished

\* C2: each invocation called by another has its caller's depth plus one,
\* the first has depth 0, no depth exceeds MAX_RAY_DEPTH = 5, and an
\* invocation of depth 5 or more calls nothing.
C2_DepthIncreasesByOne ==
    \A k \in DOMAIN stack :
        /\ stack[k].depth = (IF k = 1 THEN 0 ELSE stack[k - 1].depth + 1)
        /\ stack[k].depth >= 0 /\ stack[k].depth <= 5
        /\ stack[k].depth >= 5 => stack[k].ncalls = 0 /\ k = Len(stack)

\* An invocation of depth 5 that met a reflective sphere and has finished
\* shading it, having called nothing.
C2_Witness ==
    /\ Len(stack) = 6
    /\ Top.depth = 5 /\ Top.pc = "return"
    /\ HitSphere(Top).reflection > 0

\* C3: an invocation whose ray no sphere reports a hit for (as when the
\* scene is empty) selects no sphere; one that selects no sphere has
\* called nothing and tested no shadow, and its next step returns (2,2,2)
\* without a call.
C3_MissReturnsBackground ==
    /\ [](\A f \in Frames :
            /\ f.pc # "scan" /\ (\A i \in DOMAIN f.hits : ~f.hits[i].hit)
                  => f.sphere = 0
            /\ f.pc # "scan" /\ f.sphere = 0
                  => f.pc = "found" /\ f.ncalls = 0 /\ f.lights = <<>>)
    /\ [][stack # <<>> /\ Top.pc = "found" /\ Top.sphere = 0
            => /\ stack' = Pop
               /\ ret' = <<Vec1(2 * SCALE)>>
               /\ calls' = calls]_vars

\* A ray of depth 5 met nothing, and its caller of depth 4 holds (2,2,2).
C3_Witness ==
    /\ Len(stack) = 5 /\ Top.pc \in {"reflect", "refract"}
    /\ ret = <<Vec1(2 * SCALE)>>

\* The shadow ray of the invocation f toward light i.
ShadowOrigin(f) == VAdd(f.phit, VScale(f.nhit, 100))

ShadowDir(f, i) == Normalize(VSub(spheres[i].center, f.phit))

\* The spheres other than light i that report a hit for that shadow ray.
Occluders(f, i) ==
    { j \in DOMAIN spheres \ {i} :
        intersect(spheres[j], ShadowOrigin(f), ShadowDir(f, i), 0, 0).hit }

\* C4: for each light i the diffuse branch handles, transmission is 0 when
\* some sphere j # i reports a hit for the shadow ray and 1 when none does,
\* and with transmission 0 the light adds exactly zero.
C4_BinaryTransmission ==
    \A f \in Frames : \A n \in DOMAIN f.lights :
        LET e == f.lights[n]
        IN  /\ e.transmission = (IF Occluders(f, e.i) # {} THEN Zero ELSE Vec1(SCALE))
            /\ e.transmission = Zero => e.term = Zero

\* One invocation has handled a light that another light hides, and a
\* light that nothing hides and that adds to the colour.
C4_Witness ==
    \E f \in Frames : \E m, n \in DOMAIN f.lights :
        /\ f.lights[m].transmission = Zero
        /\ \E j \in Occluders(f, f.lights[m].i) : IsLight(spheres[j])
        /\ f.lights[n].transmission = Vec1(SCALE)
        /\ f.lights[n].term # Zero

RECURSIVE SumTerms(_)
SumTerms(lights) ==
    IF lights = <<>> THEN Zero
    ELSE VAdd(SumTerms(SubSeq(lights, 1, Len(lights) - 1)),
              lights[Len(lights)].term)

\* The shading term of the branch the invocation f took.
Shading(f) ==
    IF f.branch = "specular"
    THEN VMul(VAdd(VScale(f.reflection, f.fresneleffect),
                   VScale(VScale(f.refraction, SCALE - f.fresneleffect),
                          HitSphere(f).transparency)),
              HitSphere(f).surfaceColor)
    ELSE SumTerms(f.lights)

\* A sphere that only glows, with (5,5,5).
PureLight(s) ==
    /\ s.emissionColor = Vec1(5 * SCALE) /\ s.surfaceColor = Zero
    /\ s.reflection = 0 /\ s.transparency = 0

\* C5: an invocation that met a sphere returns the shading term of its
\* branch plus the sphere's emissionColor, whatever the branch and the
\* depth; for a sphere with emissionColor (5,5,5) and no surfaceColor,
\* reflection and transparency that is exactly (5,5,5).
C5_EmissionAdded ==
    [][stack # <<>> /\ Top.pc # "scan" /\ Top.sphere # 0 /\ Len(stack') < Len(stack)
         => /\ Top.branch \in {"specular", "diffuse"}
            /\ ret' = <<VAdd(Shading(Top), HitSphere(Top).emissionColor)>>
            /\ PureLight(HitSphere(Top)) => ret' = <<Vec1(5 * SCALE)>>]_vars

\* The primary ray met the sphere that only glows, and (5,5,5) is stored.
C5_Witness ==
    /\ Len(spheres) = 2 /\ PureLight(spheres[2])
    /\ pixel = <<Vec1(5 * SCALE)>>

\* A glowing sphere shaded in the specular branch has returned more than
\* its emission (checked reachable beside C5_Witness).
C5_SpecularWitness ==
    /\ stack # <<>> /\ Top.pc = "return" /\ Top.branch = "specular"
    /\ Top.depth = 2
    /\ IsLight(HitSphere(Top)) /\ Top.surfaceColor # Zero


\* What Sphere::intersect computes for sphere i and the ray of f.
RayToCenter(f, i) == VSub(spheres[i].center, f.rayorig)

Tca(f, i) == Dot(RayToCenter(f, i), f.raydir)

D2(f, i) == FSub(Length2(RayToCenter(f, i)), FMul(Tca(f, i), Tca(f, i)))

Thc(f, i) == FSqrt(FSub(spheres[i].radius2, D2(f, i)))

\* The ray of f is aimed at the centre of sphere i, from how far.
Distance(f, i) == FSqrt(Length2(RayToCenter(f, i)))

AimedAtCenter(f, i) == VScale(f.raydir, Distance(f, i)) = RayToCenter(f, i)

\* ==, <= of float on two results
FEq(a, b) == ~IsNaN(a) /\ ~IsNaN(b) /\ a = b

\* What the claim says of a hit: t0 and t1, their order, the tangent ray,
\* the ray through the centre.
HitDistances(f, i) ==
    LET h == f.hits[i]
    IN  /\ h.t0 = Tca(f, i) - Thc(f, i)
        /\ h.t1 = Tca(f, i) + Thc(f, i)
        /\ FLe(h.t0, h.t1)
        /\ FEq(h.t0, h.t1) <=> FEq(D2(f, i), spheres[i].radius2)
        /\ AimedAtCenter(f, i) =>
              /\ h.t0 = Distance(f, i) - spheres[i].radius
              /\ h.t1 = Distance(f, i) + spheres[i].radius

\* C6 as claimed: intersect reports a hit if and only if tca >= 0 and
\* d2 <= radius2, and on a hit t0 = tca - thc <= t1 = tca + thc, equal
\* exactly for the tangent ray, D - r and D + r for a ray through the centre.
C6_Original ==
    \A f \in Frames : \A i \in DOMAIN f.hits :
        /\ f.hits[i].hit <=> (FGe(Tca(f, i), 0) /\ FLe(D2(f, i), spheres[i].radius2))
        /\ f.hits[i].hit => HitDistances(f, i)

\* C6, amended: intersect reports a miss if and only if tca < 0 or
\* d2 > radius2.  For a ray whose direction is a number that is a hit if
\* and only if tca >= 0 and d2 <= radius2, with t0, t1 as claimed; for a
\* direction of NaN neither test rejects, and a hit with t0 = t1 = NaN is
\* reported.
C6_Intersect ==
    \A f \in Frames : \A i \in DOMAIN f.hits :
        /\ ~f.hits[i].hit <=> (FLt(Tca(f, i), 0) \/ FGt(D2(f, i), spheres[i].radius2))
        /\ ~VIsNaN(f.raydir) =>
              /\ f.hits[i].hit <=> (Tca(f, i) >= 0 /\ D2(f, i) <= spheres[i].radius2)
              /\ f.hits[i].hit => HitDistances(f, i)
        /\ VIsNaN(f.raydir) =>
              f.hits[i].hit /\ IsNaN(f.hits[i].t0) /\ IsNaN(f.hits[i].t1)

\* A tangent ray: d2 = radius2, and the hit has t0 = t1 > 0.
C6_Witness ==
    \E f \in Frames : \E i \in DOMAIN f.hits :
        /\ ~VIsNaN(f.raydir)
        /\ D2(f, i) = spheres[i].radius2
        /\ f.hits[i].hit /\ f.hits[i].t0 = f.hits[i].t1 /\ f.hits[i].t0 > 0

\* A ray through the centre from outside has met the sphere (reached
\* under SpecIntersect).
C6_CenterWitness ==
    \E f \in Frames : \E i \in DOMAIN f.hits :
        /\ AimedAtCenter(f, i) /\ f.hits[i].hit
        /\ f.hits[i].t0 > 0 /\ f.hits[i].t1 = f.hits[i].t0 + 2 * spheres[i].radius

\* trace has passed on a direction of NaN: the refraction ray of a hit from
\* inside at a flat angle (reached under Spec).
TotalInternalReflection ==
    \E f \in Frames : VIsNaN(f.raydir) /\ f.pc = "found" /\ f.depth > 0

\* The distance trace takes from the answer h of intersect.
EffectiveDistance(h) == IF h.t0 < 0 THEN h.t1 ELSE h.t0

\* C7: the sphere trace selects reports a hit, tnear is its effective
\* distance (t0, or t1 when t0 < 0), is not negative and is the least
\* effective distance among the spheres that report a hit; of several
\* spheres at that distance the one of lowest index is selected.
C7_NearestHit ==
    \A f \in HitFrames :
        /\ f.hits[f.sphere].hit
        /\ f.tnear = EffectiveDistance(f.hits[f.sphere])
        /\ f.tnear >= 0
        /\ \A j \in DOMAIN f.hits :
              f.hits[j].hit =>
                  /\ f.tnear <= EffectiveDistance(f.hits[j])
                  /\ EffectiveDistance(f.hits[j]) = f.tnear => f.sphere <= j

\* Two spheres at the same distance and a farther one: the first of the
\* two nearest ones is selected, though it is not the first of the scene.
C7_Witness ==
    \E f \in HitFrames :
        /\ Len(f.hits) = 3 /\ f.sphere = 2
        /\ f.hits[1].hit /\ EffectiveDistance(f.hits[1]) > f.tnear
        /\ f.hits[3].hit /\ EffectiveDistance(f.hits[3]) = f.tnear

\* A ray that starts inside the sphere it meets: t0 < 0, and tnear is t1
\* (reached under Spec).
C7_InsideWitness ==
    \E f \in HitFrames : f.hits[f.sphere].t0 < 0 /\ f.tnear = f.hits[f.sphere].t1

\* C8: an invocation that met a sphere takes the specular branch exactly
\* when the sphere's reflection or transparency is positive and depth <
\* MAX_RAY_DEPTH = 5, and the diffuse branch otherwise; it is in one branch
\* only, and an invocation in the diffuse branch has called nothing and is
\* waiting for no call.
C8_BranchesExclusive ==
    \A k \in DOMAIN stack :
        LET f == stack[k]
            s == HitSphere(f)
        IN  /\ f.pc \in {"scan", "found"} <=> f.branch = "none"
            /\ f.pc \in {"reflect", "refract"} => f.branch = "specular"
            /\ f.pc = "lights" => f.branch = "diffuse"
            /\ f.branch = "specular" =>
                  (s.reflection > 0 \/ s.transparency > 0) /\ f.depth < 5
            /\ f.branch = "diffuse" =>
                  /\ ~((s.reflection > 0 \/ s.transparency > 0) /\ f.depth < 5)
                  /\ f.ncalls = 0
                  /\ k = Len(stack)

\* A reflective sphere met at depth 5 is shaded in the diffuse branch, and
\* a light has been added to it.
C8_Witness ==
    \E f \in Frames :
        /\ f.depth = 5 /\ f.branch = "diffuse"
        /\ HitSphere(f).reflection > 0
        /\ f.surfaceColor # Zero

\* An opaque sphere without reflection met at depth 0 (reached under Spec).
C8_OpaqueWitness ==
    \E f \in Frames :
        /\ f.depth = 0 /\ f.branch = "diffuse" /\ f.pc = "return"
        /\ HitSphere(f).reflection = 0 /\ HitSphere(f).transparency = 0

\* C9: in the specular branch the first call is the reflection, from
\* phit + nhit * bias; a second call, the refraction from phit - nhit *
\* bias, is made exactly when transparency > 0; an opaque sphere's
\* refraction stays the zero vector.
C9_RefractionIffTransparent ==
    \A k \in DOMAIN stack :
        LET f == stack[k]
            s == HitSphere(f)
        IN  f.branch = "specular" =>
              /\ f.pc = "reflect" => f.ncalls = 1
              /\ f.pc = "refract" => f.ncalls = 2 /\ s.transparency > 0
              /\ f.pc = "return" /\ s.transparency > 0 => f.ncalls = 2
              /\ f.pc = "return" /\ s.transparency = 0 =>
                    f.ncalls = 1 /\ f.refraction = Zero
              /\ k < Len(stack) /\ f.pc = "reflect" =>
                    stack[k + 1].rayorig = VAdd(f.phit, VScale(f.nhit, 100))
              /\ k < Len(stack) /\ f.pc = "refract" =>
                    stack[k + 1].rayorig = VSub(f.phit, VScale(f.nhit, 100))

\* A transparent sphere has been shaded after two calls, the refraction
\* having returned a colour.
C9_Witness ==
    /\ stack # <<>> /\ Top.pc = "return" /\ Top.branch = "specular"
    /\ HitSphere(Top).transparency > 0
    /\ Top.ncalls = 2 /\ Top.refraction # Zero

\* A mirror has been shaded after one call (reached under Spec).
C9_MirrorWitness ==
    /\ stack # <<>> /\ Top.pc = "return" /\ Top.branch = "specular"
    /\ HitSphere(Top).transparency = 0
    /\ Top.ncalls = 1 /\ Top.reflection # Zero

RECURSIVE LightsUpTo(_, _)
\* The spheres 1..n with emissionColor.x > 0, but for sphere skip, in order.
LightsUpTo(n, skip) ==
    IF n = 0 THEN <<>>
    ELSE IF spheres[n].emissionColor[1] > 0 /\ n # skip
         THEN Append(LightsUpTo(n - 1, skip), n)
         ELSE LightsUpTo(n - 1, skip)

Handled(f) == [n \in DOMAIN f.lights |-> f.lights[n].i]

\* C10 as claimed: the diffuse branch adds each light other than the
\* sphere that was met, once, and never the sphere that was met.
C10_Original ==
    \A f \in Frames :
        f.branch = "diffuse" =>
            /\ Handled(f) = LightsUpTo(f.i - 1, f.sphere)
            /\ f.surfaceColor = SumTerms(f.lights)

\* C10, amended: the diffuse branch adds each sphere with emissionColor.x
\* > 0 once, in the order of the scene, the sphere that was met included;
\* what that sphere adds for itself is zero when it was met from outside.
C10_EveryLightOnce ==
    \A f \in Frames :
        f.branch = "diffuse" =>
            /\ Handled(f) = LightsUpTo(f.i - 1, 0)
            /\ f.surfaceColor = SumTerms(f.lights)
            /\ \A n \in DOMAIN f.lights :
                  f.lights[n].i = f.sphere /\ ~f.inside => f.lights[n].term = Zero

\* A glowing sphere met from inside has lit its own hit point: it adds
\* a colour for itself, next to another light's.
C10_Witness ==
    \E f \in Frames : \E m, n \in DOMAIN f.lights :
        /\ f.lights[n].i = f.sphere /\ f.inside
        /\ f.lights[n].term # Zero
        /\ f.lights[m].i # f.sphere

\* A glowing sphere met from outside has been handled as a light and has
\* added nothing for itself (reached under Spec).
C10_OutsideWitness ==
    \E f \in Frames : \E n \in DOMAIN f.lights :
        /\ f.lights[n].i = f.sphere /\ ~f.inside
        /\ f.lights[n].term = Zero /\ f.lights[n].transmission = Vec1(SCALE)

=============================================================================
